---- MODULE Spec2Model ----
(***************************************************************************)
(* A model of the Zendesk ticket importer (src/src/main.rs): the mapping   *)
(* document is deserialized into a Config, the remote field definitions    *)
(* are fetched once, every worksheet row from top_row on is turned into a  *)
(* Ticket or skipped with a report, and the tickets are posted in chunks.  *)
(*                                                                         *)
(* Conventions.  A Rust Option is a sequence of length 0 (None) or 1       *)
(* (Some).  A string that the code inspects character by character (a      *)
(* column label) is a sequence of code points.  A u32/usize that can       *)
(* exceed TLC's integers is a little-endian tuple of four 16-bit limbs.    *)
(***************************************************************************)
EXTENDS Integers, Sequences, FiniteSets, TLC

VARIABLES
    pc,          \* position of main/run: "config", "new", "fetch", "fetching",
                 \* "alloc", "rows", "submit", "posting", "exit"
    status,      \* how the process ended ("running" until it has)
    build,       \* "debug" (overflow checks on) or "release" (wrapping)
    doc,         \* the mapping document as written (input)
    sheet,       \* the worksheet range: a sequence of rows (input)
    remote,      \* the field definitions the remote system holds (input)
    config,      \* Config, once deserialized
    api_fields,  \* the fetched Vec<TicketField>
    row_num,     \* enumerate() index of the row loop (0-based)
    tickets,     \* Vec<Ticket>
    reports,     \* the eprintln! lines of the row loop
    chunk,       \* number of chunks whose iteration has started
    requests     \* every network request started, with its outcome

vars == <<pc, status, build, doc, sheet, remote, config, api_fields,
          row_num, tickets, reports, chunk, requests>>

\* ---------------------------------------------------------------- bounds

MaxRows == 3
MaxTopRow == 2
MaxLabelLen == 7
MaxBatchRows == 250

\* ------------------------------------------------------ program constants

ChunkSize == 100
AsciiBase == 64
Radix == 26
ExcelEpochDays == 25569
SecondsPerDay == 86400

\* ------------------------------------------------------------ primitives

None == <<>>
Some(v) == <<v>>
IsSome(o) == Len(o) = 1
Unwrap(o) == o[1]

Min(a, b) == IF a < b THEN a ELSE b

\* char::is_ascii_alphabetic
is_ascii_alphabetic(c) == (c >= 65 /\ c <= 90) \/ (c >= 97 /\ c <= 122)

all_ascii_alphabetic(s) == \A i \in 1..Len(s) : is_ascii_alphabetic(s[i])

\* ------------------------------------------- wide unsigned integers (limbs)

Limb == 2^16

BigOfNat(n) == <<n % Limb, n \div Limb, 0, 0>>

\* carry propagation through the limbs of raw, from limb i on
RECURSIVE Carry(_, _, _, _)
Carry(raw, i, c, acc) ==
    IF i > Len(raw) THEN acc
    ELSE Carry(raw, i + 1, (raw[i] + c) \div Limb,
               Append(acc, (raw[i] + c) % Limb))

BigMulSmall(a, k) == Carry([i \in 1..4 |-> a[i] * k], 1, 0, <<>>)

BigAdd(a, b) == Carry([i \in 1..4 |-> a[i] + b[i]], 1, 0, <<>>)

\* a - 1 for a >= 1
BigDec(a) ==
    IF a[1] > 0 THEN <<a[1] - 1, a[2], a[3], a[4]>>
    ELSE IF a[2] > 0 THEN <<Limb - 1, a[2] - 1, a[3], a[4]>>
    ELSE IF a[3] > 0 THEN <<Limb - 1, Limb - 1, a[3] - 1, a[4]>>
    ELSE <<Limb - 1, Limb - 1, Limb - 1, a[4] - 1>>

BigZero == <<0, 0, 0, 0>>

\* the value does not fit in a u32
Overflows32(a) == a[3] # 0 \/ a[4] # 0

\* the value modulo 2^32
Wrap32(a) == <<a[1], a[2], 0, 0>>

\* u32 subtraction of 1: wraps to u32::MAX at 0 (release only)
Dec32(a) == IF a = BigZero THEN <<Limb - 1, Limb - 1, 0, 0>> ELSE BigDec(a)

\* --------------------------------------------------- column label resolver

\* 26u32.pow(idx), exact
Pow26[idx \in 0..(MaxLabelLen + 1)] ==
    IF idx = 0 THEN BigOfNat(1) ELSE BigMulSmall(Pow26[idx - 1], Radix)

\* The loop of excel_column_to_index over col_name.chars().rev().enumerate(),
\* from position idx on: the u32 accumulator ans, and in ovf whether any u32
\* operation (the power, the product, the sum) overflowed on the way.
\* ColumnAdd is `ans += prod`, ColumnLoop the loop head with `num * pow`.
RECURSIVE ColumnLoop(_, _, _, _)
ColumnAdd(col_name, idx, sum, ovf) ==
    ColumnLoop(col_name, idx + 1, Wrap32(sum), ovf \/ Overflows32(sum))

ColumnMul(col_name, idx, ans, prod, ovf) ==
    ColumnAdd(col_name, idx, BigAdd(ans, Wrap32(prod)),
              ovf \/ Overflows32(prod))

ColumnLoop(col_name, idx, ans, ovf) ==
    IF idx = Len(col_name) THEN [ans |-> ans, ovf |-> ovf]
    ELSE ColumnMul(col_name, idx, ans,
                   BigMulSmall(Wrap32(Pow26[idx]),
                               col_name[Len(col_name) - idx] - AsciiBase),
                   ovf \/ Overflows32(Pow26[idx]))

\* The end of excel_column_to_index: Some((ans - 1) as usize)
ColumnResult(r, bld) ==
    IF r.ovf /\ bld = "debug"
    THEN [kind |-> "panic", v |-> None]
    ELSE [kind |-> "ok", v |-> Some(Dec32(r.ans))]

\* The uppercased copy is a temporary that is dropped: the loop reads col_name.
excel_column_to_index(col_name, bld) ==
    IF col_name = <<>> THEN [kind |-> "ok", v |-> None]
    ELSE ColumnResult(ColumnLoop(col_name, 0, BigZero, FALSE), bld)

\* ------------------------------------------------ mapping deserialization

\* Ok(excel_column_to_index(s).unwrap())
UnwrapIndex(r) ==
    IF r.kind = "panic" \/ ~IsSome(r.v)
    THEN [kind |-> "panic", v |-> None]
    ELSE r

\* serde deserialize_with for system_fields.comment
custom_deserializer(s, bld) ==
    IF ~all_ascii_alphabetic(s) THEN [kind |-> "err", v |-> None]
    ELSE UnwrapIndex(excel_column_to_index(s, bld))

\* serde deserialize_with for the optional system fields
custom_deserializer_opt(s, bld) ==
    IF ~all_ascii_alphabetic(s) THEN [kind |-> "err", v |-> None]
    ELSE excel_column_to_index(s, bld)

Perms(n) ==
    {p \in [1..n -> 1..n] : \A i, j \in 1..n : i # j => p[i] # p[j]}

Permute(seq, p) == [i \in 1..Len(seq) |-> seq[p[i]]]

\* The loop of custom_flattener over map.into_iter(), whose order is the
\* hash map's: entries is the map's content in iteration order.
RECURSIVE FlattenLoop(_, _, _, _)
FlattenInsert(entries, i, new_map, bld, r) ==
    IF r.kind = "panic" THEN [kind |-> "panic", v |-> <<>>]
    ELSE FlattenLoop(entries, i + 1,
             Append(new_map, [key |-> entries[i].key, col |-> Unwrap(r.v)]),
             bld)

FlattenLoop(entries, i, new_map, bld) ==
    IF i > Len(entries) THEN [kind |-> "ok", v |-> new_map]
    ELSE IF entries[i].col = <<>>
    THEN FlattenLoop(entries, i + 1, new_map, bld)
    ELSE IF ~all_ascii_alphabetic(entries[i].col)
    THEN [kind |-> "err", v |-> <<>>]
    ELSE FlattenInsert(entries, i, new_map, bld,
                       excel_column_to_index(entries[i].col, bld))

custom_flattener(entries, bld) == FlattenLoop(entries, 1, <<>>, bld)

\* The first failure among the fields' results, or the Config.
ConfigOf(d, all) ==
    IF \E i \in 1..Len(all) : all[i].kind # "ok"
    THEN [kind |-> all[CHOOSE i \in 1..Len(all) :
                         /\ all[i].kind # "ok"
                         /\ \A j \in 1..(i - 1) : all[j].kind = "ok"].kind]
    ELSE [kind |-> "ok",
          config |->
              [comment |-> Unwrap(all[1].v), subject |-> all[2].v,
               status |-> all[3].v, tickettype |-> all[4].v,
               assignee |-> all[5].v, priority |-> all[6].v,
               custom_fields |-> all[7].v,
               top_row |-> d.top_row, timezone |-> d.timezone]]

\* toml::from_str::<Config>: the fields in struct order, the first failure
\* ends the deserialization.  entries is ticket.custom_fields as the first
\* hash map iterates it.
Deserialize(d, entries, bld) ==
    IF ~d.toml_ok THEN [kind |-> "err"]
    ELSE ConfigOf(d, <<custom_deserializer(d.comment, bld),
                       custom_deserializer_opt(d.subject, bld),
                       custom_deserializer_opt(d.status, bld),
                       custom_deserializer_opt(d.tickettype, bld),
                       custom_deserializer_opt(d.assignee, bld),
                       custom_deserializer_opt(d.priority, bld),
                       custom_flattener(entries, bld)>>)

Exit(how) ==
    /\ pc' = "exit"
    /\ status' = how

\* What from_opt leaves: the Config, an error returned from main, a panic.
Configured(r) ==
    \/ /\ r.kind = "ok"
       /\ \E ord2 \in Perms(Len(r.config.custom_fields)) :
            config' = [r.config EXCEPT
                !.custom_fields = Permute(r.config.custom_fields, ord2)]
       /\ pc' = "new"
       /\ UNCHANGED status
    \/ /\ r.kind = "err"
       /\ Exit("config_error")
       /\ UNCHANGED config
    \/ /\ r.kind = "panic"
       /\ Exit("panic_config")
       /\ UNCHANGED config

\* main: Config::from_opt.  A deserialization error is returned from main; a
\* panic aborts; otherwise custom_fields is a hash map whose iteration order
\* is fixed from here on but is not the document's.
from_opt ==
    /\ pc = "config"
    /\ \E ord1 \in Perms(Len(doc.custom)) :
         Configured(Deserialize(doc, Permute(doc.custom, ord1), build))
    /\ UNCHANGED <<build, doc, sheet, remote, api_fields, row_num, tickets,
                   reports, chunk, requests>>

\* main: Importer::new.  Opening the workbook, finding the worksheet and
\* building the HTTP client can each fail.
new ==
    /\ pc = "new"
    /\ \/ /\ pc' = "fetch"
          /\ UNCHANGED status
       \/ Exit("new_error")
    /\ UNCHANGED <<build, doc, sheet, remote, config, api_fields, row_num,
                   tickets, reports, chunk, requests>>

\* ------------------------------------------------------- cells and values

\* calamine::DataType
Empty    == [t |-> "Empty",  s |-> "", f |-> 0, b |-> FALSE]
Str(x)   == [t |-> "String", s |-> x,  f |-> 0, b |-> FALSE]
Flt(x)   == [t |-> "Float",  s |-> "", f |-> x, b |-> FALSE]
Bool(x)  == [t |-> "Bool",   s |-> "", f |-> 0, b |-> x]

\* importer::ApiValue
Common(x)   == [t |-> "Common",   s |-> x,  d |-> 0, b |-> FALSE]
Date(x)     == [t |-> "Date",     s |-> "", d |-> x, b |-> FALSE]
Checkbox(x) == [t |-> "Checkbox", s |-> "", d |-> 0, b |-> x]

\* row.get(x): the cell at a zero-based column, if the row is that wide
Get(row, x) ==
    IF x[2] = 0 /\ x[3] = 0 /\ x[4] = 0 /\ x[1] < Len(row)
    THEN Some(row[x[1] + 1]) ELSE None

\* Option::and_then(|x| row.get(x)) on an optional column
GetOpt(row, ox) == IF IsSome(ox) THEN Get(row, Unwrap(ox)) ELSE None

get_string(oc) ==
    IF IsSome(oc) /\ Unwrap(oc).t = "String" THEN Some(Unwrap(oc).s) ELSE None

get_float(oc) ==
    IF IsSome(oc) /\ Unwrap(oc).t = "Float" THEN Some(Unwrap(oc).f) ELSE None

get_bool(oc) ==
    IF IsSome(oc) /\ Unwrap(oc).t = "Bool" THEN Some(Unwrap(oc).b) ELSE None

\* str::to_ascii_lowercase on the strings the worksheets hold
to_ascii_lowercase(x) ==
    CASE x = "LOW"      -> "low"
      [] x = "Alta"     -> "alta"
      [] x = "Aberto"   -> "aberto"
      [] x = "Pendente" -> "pendente"
      [] x = "TASK"     -> "task"
      [] OTHER          -> x

Ok(v)      == [kind |-> "ok", v |-> Some(v), cause |-> ""]
Err(cause) == [kind |-> "err", v |-> None, cause |-> cause]
Panic(why) == [kind |-> "panic", v |-> None, cause |-> why]

priority_from_str(name) ==
    LET n == to_ascii_lowercase(name)
    IN  IF n \in {"low", "baixa"} THEN Ok("Low")
        ELSE IF n = "normal" THEN Ok("Normal")
        ELSE IF n \in {"high", "alta"} THEN Ok("High")
        ELSE IF n \in {"urgent", "urgente"} THEN Ok("Urgent")
        ELSE Err("Unknown priority")

status_from_str(name) ==
    LET n == to_ascii_lowercase(name)
    IN  IF n \in {"open", "aberto"} THEN Ok("Open")
        ELSE IF n \in {"pending", "pendente"} THEN Ok("Pending")
        ELSE IF n \in {"hold", "em espera"} THEN Ok("Hold")
        ELSE IF n \in {"solved", "resolvido"} THEN Ok("Solved")
        ELSE IF n \in {"closed", "fechado"} THEN Ok("Closed")
        ELSE Err("Unknown status")

tickettype_from_str(name) ==
    LET n == to_ascii_lowercase(name)
    IN  IF n \in {"question", "pergunta"} THEN Ok("Question")
        ELSE IF n \in {"incident", "incidente"} THEN Ok("Incident")
        ELSE IF n \in {"problem", "problema"} THEN Ok("Problem")
        ELSE IF n \in {"task", "tarefa"} THEN Ok("Task")
        ELSE Err("Unknown ticket type")

\* ------------------------------------------------------ field coercion

CustomFieldsOf(id, value) == [id |-> id, value |-> value]

from_integer(excel_data, api_field) ==
    LET x == get_float(excel_data)
    IN  IF IsSome(x)
        THEN Ok(CustomFieldsOf(api_field.id, Common(ToString(Unwrap(x)))))
        ELSE Err("Could not parse cell as integer")

from_decimal(excel_data, api_field) ==
    LET x == get_float(excel_data)
    IN  IF IsSome(x)
        THEN Ok(CustomFieldsOf(api_field.id, Common(ToString(Unwrap(x)))))
        ELSE Err("Could not parse cell as float")

from_checkbox(excel_data, api_field) ==
    LET x == get_bool(excel_data)
    IN  IF IsSome(x)
        THEN Ok(CustomFieldsOf(api_field.id, Checkbox(Unwrap(x))))
        ELSE Err("Could not parse cell as boolean")

from_text(excel_data, api_field) ==
    LET x == get_string(excel_data)
    IN  IF IsSome(x)
        THEN Ok(CustomFieldsOf(api_field.id, Common(Unwrap(x))))
        ELSE Err("Could not parse cell as string")

from_tagger(excel_data, api_field) ==
    LET x == get_string(excel_data)
        opts == api_field.custom_field_options
        hits == IF IsSome(x)
                THEN {i \in 1..Len(opts) : opts[i].name = Unwrap(x)}
                ELSE {}
    IN  IF hits # {}
        THEN Ok(CustomFieldsOf(api_field.id,
                opts[CHOOSE i \in hits : \A j \in hits : i <= j].value))
        ELSE Err("Could not parse cell as dropdown menu option")

TimezoneNames == {"Acre", "DeNoronha", "East", "West"}

\* chrono_tz's zones Brazil/{Acre, DeNoronha, East, West} for local times
\* from 2003-03-01 on (serial 37681 and later).  The standard offset of each
\* zone in seconds:
StdOffset(zone) ==
    CASE zone = "Acre"      -> -18000
      [] zone = "DeNoronha" -> -7200
      [] zone = "East"      -> -10800
      [] zone = "West"      -> -14400

\* The periods in which a zone's clocks were one hour ahead of its standard
\* offset, as <<first day, last day>> in days since 1970-01-01: the clocks
\* went from 00:00 to 01:00 on the first day and from 00:00 back to 23:00 on
\* the last.  Brazil/East: the daylight-saving periods 2003-10-19 ..
\* 2019-02-17; Brazil/Acre: UTC-4 from 2008-06-24 to 2013-11-10.
ShiftedPeriods(zone) ==
    CASE zone = "East" ->
          <<<<12344, 12463>>, <<12724, 12834>>, <<13072, 13198>>, <<13457, 13569>>,
            <<13800, 13926>>, <<14171, 14290>>, <<14535, 14661>>, <<14899, 15025>>,
            <<15263, 15396>>, <<15634, 15753>>, <<15998, 16117>>, <<16362, 16488>>,
            <<16726, 16852>>, <<17090, 17216>>, <<17454, 17580>>, <<17839, 17944>>>>
      [] zone = "Acre" -> <<<<14054, 16019>>>>
      [] OTHER -> <<>>

\* The UTC offsets a local wall-clock time can have: none in the hour the
\* clocks skipped, two in the hour they repeated.
LocalOffsets(zone, local) ==
    LET std == StdOffset(zone)
        ps  == ShiftedPeriods(zone)
        In(from, to) == local >= from /\ local < to
    IN  IF \E i \in 1..Len(ps) :
               In(ps[i][1] * SecondsPerDay, ps[i][1] * SecondsPerDay + 3600)
        THEN {}
        ELSE IF \E i \in 1..Len(ps) :
               In(ps[i][2] * SecondsPerDay - 3600, ps[i][2] * SecondsPerDay)
        THEN {std, std + 3600}
        ELSE IF \E i \in 1..Len(ps) :
               In(ps[i][1] * SecondsPerDay + 3600,
                  ps[i][2] * SecondsPerDay - 3600)
        THEN {std + 3600}
        ELSE {std}

\* The date is kept as days since 1970-01-01.
from_date(excel_data, api_field, timezone) ==
    IF timezone \notin TimezoneNames THEN Err("Unknown timezone")
    ELSE LET x == get_float(excel_data)
         IN  IF ~IsSome(x) THEN Err("Could not parse cell as datetime")
             ELSE LET local == (Unwrap(x) - ExcelEpochDays) * SecondsPerDay
                      offs  == LocalOffsets(timezone, local)
                  IN  IF Cardinality(offs) # 1
                      THEN Panic("from_local_datetime unwrap")
                      ELSE LET utc == local - (CHOOSE o \in offs : TRUE)
                           IN  Ok(CustomFieldsOf(api_field.id,
                                      Date(utc \div SecondsPerDay)))

\* ------------------------------------------------------- record building

\* Option<&str>.map(from_str).transpose()
ParseOpt(o, r) ==
    IF ~IsSome(o) THEN Ok(None)
    ELSE IF r.kind = "ok" THEN Ok(r.v) ELSE r

\* The coercion the field's type tag selects.
Coerce(data, field, cfg) ==
    CASE field.field_type = "integer"  -> from_integer(data, field)
      [] field.field_type = "decimal"  -> from_decimal(data, field)
      [] field.field_type = "date"     -> from_date(data, field, cfg.timezone)
      [] field.field_type = "checkbox" -> from_checkbox(data, field)
      [] field.field_type = "text"     -> from_text(data, field)
      [] field.field_type = "tagger"   -> from_tagger(data, field)
      [] OTHER -> Err("Unknown Zendesk field type")

\* api_fields.iter().find(|x| x.title == *key)
Find(fields, key) ==
    LET hits == {i \in 1..Len(fields) : fields[i].title = key}
    IN  IF hits = {} THEN None
        ELSE Some(fields[CHOOSE i \in hits : \A j \in hits : i <= j])

\* Option<Result<T>>::transpose of the mapped coercion
Transpose(r) == IF r.kind = "ok" THEN Ok(r.v) ELSE r

\* (mutation: a blank or absent cell of a matched field gives an empty slot)
CustomSlot_BlankEmpty(row, entry, cfg, fields) ==
    IF ~IsSome(Find(fields, entry.key)) THEN Ok(None)
    ELSE IF ~IsSome(Get(row, entry.col))
            \/ Unwrap(Get(row, entry.col)).t = "Empty"
    THEN Ok(None)
    ELSE Transpose(Coerce(Get(row, entry.col),
                          Unwrap(Find(fields, entry.key)), cfg))

\* (mutation: a key without a field definition is an error)
CustomSlot_UnmatchedErr(row, entry, cfg, fields) ==
    IF ~IsSome(Find(fields, entry.key)) THEN Err("No such Zendesk field")
    ELSE Transpose(Coerce(Get(row, entry.col),
                          Unwrap(Find(fields, entry.key)), cfg))

\* One iteration of the custom-field loop of Ticket::from_row: the slot of
\* one mapping entry, None when no field definition has the entry's title.
CustomSlot(row, entry, cfg, fields) ==
    IF ~IsSome(Find(fields, entry.key)) THEN Ok(None)
    ELSE Transpose(Coerce(Get(row, entry.col),
                          Unwrap(Find(fields, entry.key)), cfg))

\* (mutation: only the slots that hold a value are pushed)
RECURSIVE CustomLoop_SkipEmpty(_, _, _, _, _)
CustomLoop_SkipEmpty(row, cfg, fields, i, custom_fields) ==
    IF i > Len(cfg.custom_fields) THEN Ok(custom_fields)
    ELSE LET r == CustomSlot(row, cfg.custom_fields[i], cfg, fields)
         IN  IF r.kind # "ok" THEN r
             ELSE CustomLoop_SkipEmpty(row, cfg, fields, i + 1,
                      IF IsSome(Unwrap(r.v))
                      THEN Append(custom_fields, Unwrap(r.v))
                      ELSE custom_fields)

\* The loop over config.ticket.custom_fields.iter(), in the map's order.
RECURSIVE CustomLoop(_, _, _, _, _)
CustomLoop(row, cfg, fields, i, custom_fields) ==
    IF i > Len(cfg.custom_fields) THEN Ok(custom_fields)
    ELSE LET r == CustomSlot(row, cfg.custom_fields[i], cfg, fields)
         IN  IF r.kind # "ok" THEN r
             ELSE CustomLoop(row, cfg, fields, i + 1,
                             Append(custom_fields, Unwrap(r.v)))

from_row(row, cfg, fields) ==
    LET subject    == get_string(GetOpt(row, cfg.subject))
        body       == get_string(Get(row, cfg.comment))
        pcell      == get_string(GetOpt(row, cfg.priority))
        priority   == ParseOpt(pcell, priority_from_str(Unwrap(pcell)))
        scell      == get_string(GetOpt(row, cfg.status))
        stat       == ParseOpt(scell, status_from_str(Unwrap(scell)))
        tcell      == get_string(GetOpt(row, cfg.tickettype))
        tickettype == ParseOpt(tcell, tickettype_from_str(Unwrap(tcell)))
        assignee   == get_string(GetOpt(row, cfg.assignee))
        custom     == CustomLoop(row, cfg, fields, 1, <<>>)
    IN  IF ~IsSome(body) THEN Err("Comment cell should be a string")
        ELSE IF priority.kind # "ok" THEN priority
        ELSE IF stat.kind # "ok" THEN stat
        ELSE IF tickettype.kind # "ok" THEN tickettype
        ELSE IF custom.kind # "ok" THEN custom
        ELSE Ok([subject       |-> subject,
                 comment       |-> [body |-> Unwrap(body)],
                 priority      |-> Unwrap(priority.v),
                 status        |-> Unwrap(stat.v),
                 tickettype    |-> Unwrap(tickettype.v),
                 assignee      |-> assignee,
                 custom_fields |-> Unwrap(custom.v)])

\* ------------------------------------------------------------ Importer::run

Request(kind, body) == [kind |-> kind, body |-> body, outcome |-> "pending"]

\* (mutation: the response is not awaited, the request stays in flight)
Complete_Unawaited(reqs, outcome) == reqs

\* The awaited response of the request sent last.
Complete(reqs, outcome) ==
    [reqs EXCEPT ![Len(reqs)] = [@ EXCEPT !.outcome = outcome]]

\* get_api_fields: the GET is sent
send_get_fields ==
    /\ pc = "fetch"
    /\ requests' = Append(requests, Request("get_fields", <<>>))
    /\ pc' = "fetching"
    /\ UNCHANGED <<status, build, doc, sheet, remote, config, api_fields,
                   row_num, tickets, reports, chunk>>

\* get_api_fields: the awaited response; anything but a parsed success
\* is returned from run by `?`
get_fields_response ==
    /\ pc = "fetching"
    /\ \E outcome \in {"ok", "no_response", "bad_status", "bad_json"} :
         /\ requests' = Complete(requests, outcome)
         /\ IF outcome = "ok"
            THEN /\ api_fields' = remote
                 /\ pc' = "alloc"
                 /\ UNCHANGED status
            ELSE /\ Exit("fetch_error")
                 /\ UNCHANGED api_fields
    /\ UNCHANGED <<build, doc, sheet, remote, config, row_num, tickets,
                   reports, chunk>>

\* Vec::with_capacity(rows().len() - top_row - 1): a negative difference
\* panics in the subtraction (overflow checks on) or, wrapped, in the
\* allocation (capacity overflow).
Capacity == Len(sheet) - config.top_row - 1

alloc ==
    /\ pc = "alloc"
    /\ IF Capacity < 0
       THEN Exit("panic_capacity")
       ELSE /\ pc' = "rows"
            /\ UNCHANGED status
    /\ UNCHANGED <<build, doc, sheet, remote, config, api_fields, row_num,
                   tickets, reports, chunk, requests>>

\* rows().skip(top_row - 1).enumerate(): the row the loop is at (1-based
\* position in the worksheet range)
RowPos == config.top_row + row_num

\* (mutation: the enumerate() index taken for the row number)
ReportLine_Index == row_num + 1

\* The row number of "Error processing line {}"
ReportLine == row_num + config.top_row

\* One iteration of the row loop.
process_row ==
    /\ pc = "rows"
    /\ RowPos <= Len(sheet)
    /\ LET ticket == from_row(sheet[RowPos], config, api_fields)
       IN  \/ /\ ticket.kind = "err"
              /\ reports' = Append(reports,
                     [line |-> ReportLine, cause |-> ticket.cause])
              /\ row_num' = row_num + 1
              /\ UNCHANGED <<pc, status, tickets>>
           \/ /\ ticket.kind = "ok"
              /\ tickets' = Append(tickets, Unwrap(ticket.v))
              /\ row_num' = row_num + 1
              /\ UNCHANGED <<pc, status, reports>>
           \/ /\ ticket.kind = "panic"
              /\ Exit("panic_row")
              /\ UNCHANGED <<row_num, tickets, reports>>
    /\ UNCHANGED <<build, doc, sheet, remote, config, api_fields, chunk,
                   requests>>

\* The row iterator is exhausted.
rows_done ==
    /\ pc = "rows"
    /\ RowPos > Len(sheet)
    /\ pc' = "submit"
    /\ UNCHANGED <<status, build, doc, sheet, remote, config, api_fields,
                   row_num, tickets, reports, chunk, requests>>

\* (mutation: the chunk's end taken one element too far)
Chunk_Overlap(seq, k) ==
    SubSeq(seq, (k - 1) * ChunkSize + 1, Min(k * ChunkSize + 1, Len(seq)))

\* tickets.chunks(ChunkSize): the k-th chunk (1-based)
Chunk(seq, k) ==
    SubSeq(seq, (k - 1) * ChunkSize + 1, Min(k * ChunkSize, Len(seq)))

\* One iteration of the chunk loop up to the await: the POST is sent.
post_chunk ==
    /\ pc = "submit"
    /\ chunk * ChunkSize < Len(tickets)
    /\ chunk' = chunk + 1
    /\ requests' = Append(requests,
                          Request("post_many", Chunk(tickets, chunk + 1)))
    /\ pc' = "posting"
    /\ UNCHANGED <<status, build, doc, sheet, remote, config, api_fields,
                   row_num, tickets, reports>>

\* (mutation: a non-success status is not turned into an error)
AfterPost_IgnoreStatus(outcome) ==
    IF outcome \in {"ok", "bad_status"}
    THEN /\ pc' = "submit"
         /\ UNCHANGED status
    ELSE Exit("submit_error")

\* `?` on the response of the POST: on success the loop goes on, anything
\* else is returned from run.
AfterPost(outcome) ==
    IF outcome = "ok"
    THEN /\ pc' = "submit"
         /\ UNCHANGED status
    ELSE Exit("submit_error")

\* The awaited response of the POST: no response, a non-success status or an
\* unreadable body.
post_response ==
    /\ pc = "posting"
    /\ \E outcome \in {"ok", "no_response", "bad_status", "bad_text"} :
         /\ requests' = Complete(requests, outcome)
         /\ AfterPost(outcome)
    /\ UNCHANGED <<build, doc, sheet, remote, config, api_fields, row_num,
                   tickets, reports, chunk>>

\* The chunk iterator is exhausted: run returns Ok(()).
finish ==
    /\ pc = "submit"
    /\ chunk * ChunkSize >= Len(tickets)
    /\ Exit("ok")
    /\ UNCHANGED <<build, doc, sheet, remote, config, api_fields, row_num,
                   tickets, reports, chunk, requests>>

\* ------------------------------------------------------------------ inputs

\* The mapping document the worksheets below are laid out for: comment and
\* subject in column A, priority in B, status in C, type in D, the custom
\* fields F1 in E and F2 in F.
BaseDoc ==
    [toml_ok    |-> TRUE,
     comment    |-> <<65>>,
     subject    |-> <<65>>,
     status     |-> <<67>>,
     tickettype |-> <<68>>,
     assignee   |-> <<>>,
     priority   |-> <<66>>,
     custom     |-> <<[key |-> "F1", col |-> <<69>>],
                      [key |-> "F2", col |-> <<70>>]>>,
     top_row    |-> 1,
     timezone   |-> "East"]

TicketField(id, title, type, options) ==
    [id |-> id, title |-> title, field_type |-> type,
     custom_field_options |-> options]

RedOption == <<[name |-> "red", value |-> Common("r")]>>

RemoteNumbers ==
    <<TicketField(11, "F1", "integer", <<>>),
      TicketField(12, "F2", "tagger", RedOption)>>
RemoteDates ==
    <<TicketField(21, "F1", "date", <<>>),
      TicketField(22, "F2", "checkbox", <<>>)>>
RemoteTexts ==
    <<TicketField(31, "F1 ", "text", <<>>),
      TicketField(32, "F2", "text", <<>>)>>
RemoteOther ==
    <<TicketField(41, "F1", "decimal", <<>>),
      TicketField(42, "F2", "lookup", <<>>)>>

RemoteNone == <<>>

Remotes == {RemoteNumbers, RemoteDates, RemoteTexts, RemoteOther, RemoteNone}

RowGood    == <<Str("Hello"), Str("Alta"), Str("Aberto"), Str("TASK"),
                Flt(40000), Str("red")>>
RowNoText  == <<Flt(7), Str("alta"), Str("open"), Str("task"),
                Flt(40000), Str("red")>>
RowBadPrio == <<Str("P"), Str("bogus"), Str("open"), Str("task"),
                Flt(40000), Str("red")>>
RowBadStat == <<Str("S"), Str("LOW"), Str("new"), Str("task"),
                Flt(40000), Str("red")>>
RowBadType == <<Str("T"), Str("urgente"), Str("Pendente"), Str("bogus"),
                Flt(40000), Str("red")>>
RowBlank   == <<Str("B"), Empty, Empty, Empty, Empty, Empty>>
RowDstGap  == <<Str("D"), Str("normal"), Str("fechado"), Str("pergunta"),
                Flt(43023), Bool(TRUE)>>
RowDate    == <<Str("E"), Str("baixa"), Str("hold"), Str("incidente"),
                Flt(44197), Str("blue")>>

\* 2008-06-24 00:00, the hour Brazil/Acre skipped
RowAcreGap == <<Str("G"), Str("normal"), Str("fechado"), Str("pergunta"),
                Flt(39623), Bool(FALSE)>>

\* (Cells under a date field hold whole-day serials from 2003-03-01 to 2038,
\* whose seconds fit TLC's integers.)
RowKinds == {RowGood, RowNoText, RowBadPrio, RowBadStat, RowBadType,
             RowBlank, RowDstGap}

SeqsUpTo(S, n) == UNION {[1..k -> S] : k \in 0..n}

\* A long worksheet: row i holds i in its comment and in F1; every
\* `every`-th row has no comment text (every = 0: none).
BatchRow(i, every) ==
    <<IF every > 0 /\ i % every = 0 THEN Flt(i) ELSE Str(ToString(i)),
      Str("alta"), Str("open"), Str("task"), Flt(i), Str("red")>>

BatchSheet(n, every) == [i \in 1..n |-> BatchRow(i, every)]

\* Column labels: every label of up to two letters over A, Z, a, z, and every
\* label of up to MaxLabelLen letters over A, Z.
Labels == SeqsUpTo({65, 90, 97, 122}, 2) \cup SeqsUpTo({65, 90}, MaxLabelLen)

\* Worksheet lengths around the chunk boundaries, and the longest.
BatchSizes ==
    {n \in 0..MaxBatchRows :
        \/ n = MaxBatchRows
        \/ n % ChunkSize \in {0, 1, 2, ChunkSize \div 2, ChunkSize - 1}}

\* The documents with something wrong or unusual in them.
DocVariants ==
    {[BaseDoc EXCEPT !.toml_ok = FALSE]}
    \cup
    {[BaseDoc EXCEPT !.timezone = tz, !.comment = co, !.custom[2].col = f2,
                     !.custom[1].col = f1] :
        tz \in {"East", "Bogus"},
        co \in {<<65>>, <<97>>, <<>>},
        f1 \in {<<69>>, <<>>},
        f2 \in {<<70>>, <<90>>, <<70, 49>>}}

InitWith(d, r, sh, b) ==
    /\ pc = "config"
    /\ status = "running"
    /\ build = b
    /\ doc = d
    /\ sheet = sh
    /\ remote = r
    /\ config = <<>>
    /\ api_fields = <<>>
    /\ row_num = 0
    /\ tickets = <<>>
    /\ reports = <<>>
    /\ chunk = 0
    /\ requests = <<>>

\* Short worksheets of every mix of rows, read from every first data row.
InitRows ==
    \E top \in 1..MaxTopRow, r \in {RemoteNumbers, RemoteDates},
       sh \in SeqsUpTo(RowKinds, MaxRows) :
        InitWith([BaseDoc EXCEPT !.top_row = top], r, sh, "release")

\* Every document variant against every remote field list.
InitDocs ==
    \E d \in DocVariants, r \in Remotes,
       sh \in [1..2 -> {RowGood, RowBlank, RowDate}] :
        InitWith(d, r, sh, "release")

\* Long worksheets, for the chunk loop.
InitBatch ==
    \E n \in BatchSizes, every \in {0, 3} :
        InitWith(BaseDoc, RemoteNumbers, BatchSheet(n, every), "release")

\* Every column label, in both build profiles, as the priority column.
InitLabels ==
    \E l \in Labels, b \in {"debug", "release"} :
        InitWith([BaseDoc EXCEPT !.priority = l], RemoteNumbers,
                 <<RowGood, RowBlank>>, b)

\* Date cells under each recognized timezone name.
InitZones ==
    \E tz \in TimezoneNames,
       sh \in [1..2 -> {RowGood, RowDate, RowDstGap, RowAcreGap}] :
        InitWith([BaseDoc EXCEPT !.timezone = tz], RemoteDates, sh, "release")

Init == InitRows \/ InitDocs \/ InitBatch \/ InitLabels \/ InitZones

Next ==
    \/ from_opt
    \/ new
    \/ send_get_fields
    \/ get_fields_response
    \/ alloc
    \/ process_row
    \/ rows_done
    \/ post_chunk
    \/ post_response
    \/ finish

Spec == Init /\ [][Next]_vars

\* ---------------------------------------------------------------- claims

\* The Config exists (from_opt returned it).
HasConfig == pc # "config" /\ status \notin {"config_error", "panic_config"}

\* The field definitions were fetched.
Fetched ==
    \/ pc \in {"alloc", "rows", "submit", "posting"}
    \/ pc = "exit" /\ status \in {"ok", "submit_error", "panic_row",
                                  "panic_capacity"}

\* The run is past the row loop, however it left it.
RowLoopLeft ==
    \/ pc \in {"submit", "posting"}
    \/ pc = "exit" /\ status \in {"ok", "submit_error", "panic_row",
                                  "panic_capacity"}

\* The worksheet positions of the data rows, and of those among the first k.
DataRows == config.top_row .. Len(sheet)
FirstRows(k) == config.top_row .. (config.top_row + k - 1)

\* The records of the rows at positions from..to whose build succeeds, in
\* file order.
RECURSIVE BuiltFrom(_, _)
BuiltFrom(from, to) ==
    IF from > to THEN <<>>
    ELSE LET r == from_row(sheet[from], config, api_fields)
         IN  (IF r.kind = "ok" THEN <<Unwrap(r.v)>> ELSE <<>>)
             \o BuiltFrom(from + 1, to)

\* The positions from..to whose build fails, in file order.
RECURSIVE FailedFrom(_, _)
FailedFrom(from, to) ==
    IF from > to THEN <<>>
    ELSE (IF from_row(sheet[from], config, api_fields).kind = "err"
          THEN <<from>> ELSE <<>>)
         \o FailedFrom(from + 1, to)

\* The bulk-create requests, in the order they were started.
Posts == SelectSeq(requests, LAMBDA q : q.kind = "post_many")

RECURSIVE Concat(_, _)
Concat(reqs, k) ==
    IF k = 0 THEN <<>> ELSE Concat(reqs, k - 1) \o reqs[k].body

CeilDiv(n, d) == (n + d - 1) \div d

\* C1 (as claimed): for every sequence of data rows, once the run is past the
\* row loop every data row has been processed and the records handed to
\* batching are exactly the records of the rows whose build succeeds, in file
\* order; no row ends the run.
C1_Claim ==
    RowLoopLeft =>
        /\ row_num = Cardinality(DataRows)
        /\ tickets = BuiltFrom(config.top_row, Len(sheet))

\* C2: every report names the 1-based worksheet position of a failing row
\* at or after top_row: the reports are, in order, the positions of the rows
\* among the processed ones (top_row, top_row + 1, ...) whose build fails.
C2_RowNumbers ==
    HasConfig =>
        /\ \A i \in 1..Len(reports) :
              /\ reports[i].line >= config.top_row
              /\ reports[i].line <= Len(sheet)
              /\ from_row(sheet[reports[i].line], config, api_fields).kind = "err"
              /\ from_row(sheet[reports[i].line], config, api_fields).cause
                     = reports[i].cause
        /\ [i \in 1..Len(reports) |-> reports[i].line]
               = FailedFrom(config.top_row, config.top_row + row_num - 1)
        /\ Len(tickets) + Len(reports) = row_num

\* C2 witness: with top_row = 2 the second processed row fails and is
\* reported as line 3, after the first processed row was built.
C2_Witness ==
    /\ HasConfig
    /\ config.top_row = 2
    /\ Len(tickets) = 1
    /\ Len(reports) = 1
    /\ reports[1].line = 3

\* C3: the submission groups are consecutive slices of the records: each
\* holds 1..100 records, each but the last exactly 100, together they are a
\* prefix of the record sequence, and a run that ends well has sent
\* ceil(n/100) groups that concatenate to the whole sequence.
C3_Chunks ==
    LET n == Len(tickets)
        g == Len(Posts)
    IN  /\ g <= CeilDiv(n, ChunkSize)
        /\ \A k \in 1..g :
              /\ Len(Posts[k].body) >= 1
              /\ Len(Posts[k].body) <= ChunkSize
              /\ k < CeilDiv(n, ChunkSize) => Len(Posts[k].body) = ChunkSize
        /\ Concat(Posts, g) = SubSeq(tickets, 1, Len(Concat(Posts, g)))
        /\ status = "ok" =>
              /\ g = CeilDiv(n, ChunkSize)
              /\ Concat(Posts, g) = tickets

\* C3 witness: 250 records were sent as groups of 100, 100 and 50.
C3_Witness ==
    /\ status = "ok"
    /\ Len(tickets) = 250
    /\ Len(Posts) = 3
    /\ Len(Posts[1].body) = 100
    /\ Len(Posts[2].body) = 100
    /\ Len(Posts[3].body) = 50

\* C4: a bulk-create request that got no response or a non-success status is
\* the last request ever started and ends the run; every request before it
\* succeeded, and the groups sent are distinct consecutive slices (no group
\* is sent twice, nothing is sent to undo them).
C4_FailFast ==
    /\ \A i \in 1..Len(requests) :
          /\ requests[i].outcome \in {"no_response", "bad_status"} =>
                /\ i = Len(requests)
                /\ pc = "exit"
                /\ status \in {"submit_error", "fetch_error"}
          /\ i < Len(requests) => requests[i].outcome = "ok"
    /\ Len(Posts) <= CeilDiv(Len(tickets), ChunkSize)
    /\ Concat(Posts, Len(Posts))
           = SubSeq(tickets, 1, Len(Concat(Posts, Len(Posts))))
    /\ \A i \in 1..Len(requests) :
          requests[i].kind = "get_fields" <=> i = 1

\* C4 witness: the second of three groups got a non-success status; the run
\* has ended with two bulk-create requests in all.
C4_Witness ==
    /\ pc = "exit"
    /\ status = "submit_error"
    /\ Len(tickets) > 2 * ChunkSize
    /\ Len(Posts) = 2
    /\ Posts[1].outcome = "ok"
    /\ Posts[2].outcome = "bad_status"

\* C5 (as claimed): with an unrecognized timezone name in the document the
\* run ends with an error before Ticket::from_row is called on any row and
\* before any request that creates tickets.
C5_Claim ==
    doc.timezone \notin TimezoneNames =>
        /\ row_num = 0
        /\ tickets = <<>>
        /\ reports = <<>>
        /\ Posts = <<>>
        /\ status \in {"running", "config_error"} \/ ~Fetched

\* Some field definition has this title.
Matched(key) == \E i \in 1..Len(api_fields) : api_fields[i].title = key

\* The slot is empty or holds the value of the field the key names.
SlotFits(slot, key) ==
    IsSome(slot) => /\ IsSome(Find(api_fields, key))
                    /\ Unwrap(slot).id = Unwrap(Find(api_fields, key)).id

\* The mapping entries of the document that have a column label.
Labelled == SelectSeq(doc.custom, LAMBDA e : e.col # <<>>)

Blank(oc) == ~IsSome(oc) \/ Unwrap(oc).t = "Empty"

\* The system fields of the row build.
SystemFieldsFine(row) ==
    from_row(row, [config EXCEPT !.custom_fields = <<>>], api_fields).kind = "ok"

\* Some entry with a field definition has a blank or absent cell in the row.
HasBlankMatched(row) ==
    \E i \in 1..Len(config.custom_fields) :
        /\ Matched(config.custom_fields[i].key)
        /\ Blank(Get(row, config.custom_fields[i].col))

\* The row's system fields build, and its custom-field cells are blank or
\* absent wherever the entry has a field definition (there is one).
OnlyBlankMatched(row) ==
    /\ SystemFieldsFine(row)
    /\ HasBlankMatched(row)
    /\ \A i \in 1..Len(config.custom_fields) :
          Matched(config.custom_fields[i].key)
              => Blank(Get(row, config.custom_fields[i].col))

\* C7 (as claimed): a blank or absent cell of a custom field that has a
\* field definition does not make the row fail: a row with nothing else to
\* fail on is never reported.
C7_Claim ==
    \A i \in 1..Len(reports) : ~OnlyBlankMatched(sheet[reports[i].line])

\* C7 (amended): a processed row in which a custom field that has a field
\* definition has a blank or absent cell is reported and not built; in a
\* built record a slot is empty exactly when its key has no field
\* definition.
C7_BlankFails ==
    /\ HasConfig =>
          \A p \in FirstRows(row_num) :
              HasBlankMatched(sheet[p])
                  => \E i \in 1..Len(reports) : reports[i].line = p
    /\ \A t \in 1..Len(tickets) :
          \A i \in 1..Len(tickets[t].custom_fields) :
              IsSome(tickets[t].custom_fields[i])
                  <=> Matched(config.custom_fields[i].key)

\* C7 witness: a row whose only flaw is the blank cell of a matched custom
\* field has been reported.
C7_Witness ==
    \E i \in 1..Len(reports) :
        /\ OnlyBlankMatched(sheet[reports[i].line])
        /\ reports[i].cause = "Could not parse cell as integer"

\* The Config without the entries that have no field definition.
MatchedOnly ==
    [config EXCEPT !.custom_fields =
        SelectSeq(config.custom_fields, LAMBDA e : Matched(e.key))]

\* C8: a mapping key that is the title of no field definition never makes a
\* row fail (every reported row fails without those entries too), and its
\* slot in every built record is empty.
C8_UnmatchedKey ==
    /\ \A i \in 1..Len(reports) :
          from_row(sheet[reports[i].line], MatchedOnly, api_fields).kind = "err"
    /\ \A t \in 1..Len(tickets) :
          /\ Len(tickets[t].custom_fields) = Len(config.custom_fields)
          /\ \A i \in 1..Len(config.custom_fields) :
                ~Matched(config.custom_fields[i].key)
                    => tickets[t].custom_fields[i] = None

\* C8 witness: the first data row was built although the cell of an entry
\* without a field definition holds a number; that slot is empty and another
\* slot holds a value.
C8_Witness ==
    /\ pc = "rows"
    /\ row_num = 1
    /\ Len(tickets) = 1
    /\ \E i, j \in 1..Len(config.custom_fields) :
          /\ ~Matched(config.custom_fields[i].key)
          /\ get_float(Get(sheet[config.top_row], config.custom_fields[i].col))
                 = Some(40000)
          /\ tickets[1].custom_fields[i] = None
          /\ IsSome(tickets[1].custom_fields[j])

\* The label's value as a base-26 numeral with digits A=1..Z=26, most
\* significant digit first (Horner's rule, no width limit).
RECURSIVE Numeral(_, _, _)
Numeral(label, i, acc) ==
    IF i > Len(label) THEN acc
    ELSE Numeral(label, i + 1,
                 BigAdd(BigMulSmall(acc, 26), BigOfNat(label[i] - 65 + 1)))

IsUpperLabel(label) == \A i \in 1..Len(label) : label[i] >= 65 /\ label[i] <= 90

\* char::to_ascii_uppercase on every character
Upper(label) ==
    [i \in 1..Len(label) |->
        IF label[i] >= 97 /\ label[i] <= 122 THEN label[i] - 32 ELSE label[i]]

\* The document is the base document but for the priority label.
OnlyPriorityVaries == doc = [BaseDoc EXCEPT !.priority = doc.priority]

\* C9 (as claimed): for a label of uppercase letters the resolver neither
\* overflows nor aborts and returns the base-26 value minus 1; for the empty
\* label it returns no index.
C9_Claim ==
    (OnlyPriorityVaries /\ IsUpperLabel(doc.priority)) =>
        /\ status # "panic_config"
        /\ HasConfig =>
              config.priority =
                  IF doc.priority = <<>> THEN None
                  ELSE Some(BigDec(Numeral(doc.priority, 1, BigZero)))

\* C10 (as claimed): the resolver gives a label of letters the index of its
\* uppercase form.
C10_Claim ==
    (OnlyPriorityVaries /\ HasConfig /\ doc.priority # <<>>
        /\ all_ascii_alphabetic(doc.priority)) =>
        config.priority = excel_column_to_index(Upper(doc.priority), build).v


\* The requests in flight: sent and not yet answered.
InFlight == {i \in 1..Len(requests) : requests[i].outcome = "pending"}

\* Importer::run has started (Importer::new returned the importer).
RunStarted ==
    \/ pc \in {"fetching", "alloc", "rows", "submit", "posting"}
    \/ pc = "exit" /\ status \in {"fetch_error", "ok", "submit_error",
                                  "panic_row", "panic_capacity"}

\* C11: at most one request is in flight, and it is the one sent last, while
\* the run waits for it; the field-definition fetch is sent exactly once in
\* a run, as its first request, and has succeeded before any row is
\* processed and before any bulk-create request is sent; every request but
\* the last has completed with success, so a group is sent only after the
\* group before it succeeded.
C11_Sequential ==
    /\ Cardinality(InFlight) <= 1
    /\ InFlight # {} <=> pc \in {"fetching", "posting"}
    /\ \A i \in InFlight : i = Len(requests)
    /\ RunStarted <=> requests # <<>>
    /\ \A i \in 1..Len(requests) :
          /\ requests[i].kind = (IF i = 1 THEN "get_fields" ELSE "post_many")
          /\ i < Len(requests) => requests[i].outcome = "ok"
    /\ (row_num > 0 \/ tickets # <<>> \/ reports # <<>> \/ pc = "rows"
            \/ Posts # <<>>)
          => /\ requests # <<>>
             /\ requests[1].kind = "get_fields"
             /\ requests[1].outcome = "ok"
             /\ api_fields = remote
    /\ \A k \in 1..Len(Posts) :
          k < Len(Posts) => Posts[k].outcome = "ok"

\* C11 witness: the request of the second group is in flight, after the
\* fetch and the first group's request have succeeded.
C11_Witness ==
    /\ pc = "posting"
    /\ Len(requests) = 3
    /\ requests[1].outcome = "ok"
    /\ requests[2].outcome = "ok"
    /\ requests[3].kind = "post_many"
    /\ requests[3].outcome = "pending"
    /\ Len(requests[2].body) = ChunkSize

\* The cell of row p for the i-th custom-field entry, and whether that entry
\* is matched to a date field and the cell is numeric.
DateCell(p, i) == Get(sheet[p], config.custom_fields[i].col)

IsDateCell(p, i) ==
    /\ IsSome(Find(api_fields, config.custom_fields[i].key))
    /\ Unwrap(Find(api_fields, config.custom_fields[i].key)).field_type
           = "date"
    /\ IsSome(get_float(DateCell(p, i)))

DateOf(p, i) ==
    from_date(DateCell(p, i),
              Unwrap(Find(api_fields, config.custom_fields[i].key)),
              config.timezone)

\* C12 (as claimed): under each of the four recognized timezone names the
\* date coercion of a numeric cell neither errors nor aborts the run,
\* whatever local time the serial denotes (daylight-saving gaps and overlaps
\* included), and serial 44197 under East gives 2021-01-01 (day 18628 since
\* 1970-01-01).
C12_Claim ==
    (Fetched /\ doc.timezone \in TimezoneNames) =>
        /\ status # "panic_row"
        /\ \A p \in FirstRows(row_num) :
              \A i \in 1..Len(config.custom_fields) :
                 IsDateCell(p, i) =>
                    /\ DateOf(p, i).kind = "ok"
                    /\ (config.timezone = "East"
                           /\ Unwrap(get_float(DateCell(p, i))) = 44197)
                          => DateOf(p, i).v.value = Date(18628)

\* C13 (as claimed): for every worksheet of n >= 0 rows and every first data
\* row top_row >= 1, n <= top_row included, the sizing of the record buffer
\* (n - top_row - 1) does not end the run: the row loop is reached, it
\* processes exactly the rows top_row..n, and the run goes on to submission.
C13_Claim ==
    (HasConfig /\ Fetched) =>
        /\ config.top_row >= 1
        /\ status # "panic_capacity"
        /\ (pc \in {"submit", "posting"} \/ status \in {"ok", "submit_error"})
              => row_num = Cardinality(DataRows)

====
